---- MODULE Spec2Model ----
(***************************************************************************)
(* Model of knexer/interference-factory: a grid puzzle game written with   *)
(* the Bevy engine.  One frame of the Update schedule is a chain of        *)
(* systems; every system is one action and pc names the system that runs   *)
(* next.  Coordinates and offsets are pairs <<x, y>> (IVec2).              *)
(***************************************************************************)
EXTENDS Integers, Sequences, FiniteSets, TLC

(***************************************************************************)
(* Bounds of the model.  The source sets MAX_X = MAX_Y = 5 (main.rs:132);  *)
(* the code is uniform in the grid size and the model checks a smaller     *)
(* grid.                                                                   *)
(***************************************************************************)
MAX_X == 3
MAX_Y == 3
\* number of time quanta in the 200 ms animation (main.rs:209)
AnimDuration == 2
\* move attempts recorded per episode
MaxRecording == 5

NUM_CANDIES == 10
NUM_FUEL == 2
GRID_SPACING == 130

VARIABLES
    state,          \* AppState
    next_state,     \* NextState<AppState>: "None" or the queued state
    pc,             \* the system that runs next
    grid_location,  \* GridLocation of the Player
    changed,        \* Changed<GridLocation> of the Player, as seen by snap_to_grid
    inventory,      \* Inventory of the Player
    timer,          \* elapsed quanta of the Player's AnimateTranslation timer
    items,          \* live Item entities
    move_buffer,    \* MoveBuffer.next_move
    move_attempts,  \* Events<MoveAttempt> of this frame
    item_gets,      \* Events<ItemGet> of this frame
    recording,      \* TimeLoopRecording.moves
    last_move,      \* history: what move_player_on_grid did in this frame
    accepted,       \* history: offsets of the moves applied in this episode
    soots,          \* SootSprite agents by loop_number (turn scheduler)
    turn,           \* TurnCounter
    rotated,        \* history: the last step was a turn rotation
    loop_counter,   \* LoopCounter
    level_spawn,    \* Level.spawn
    echo,           \* the SootSprite{loop_number: 1} spawned by spawn_past_self
    queue,          \* the recorded offsets the echo has not replayed yet
    run0,           \* history: the run of the loop-0 agent in iteration 0
    run1,           \* history: the run of the echo in iteration 1
    pending,        \* history: MoveBuffer holds an offset stored in an earlier frame
    translation,    \* Transform.translation of the Player
    animation,      \* start and end of the Player's AnimateTranslation
    movement_completes, \* MovementComplete signals sent in this frame
    players,        \* the number of live entities with the Player component
    has_animation   \* the Player carries an AnimateTranslation component

game_vars == <<state, next_state, pc, grid_location, changed, inventory, timer,
               items, move_buffer, move_attempts, item_gets, recording,
               last_move, accepted>>

turn_vars == <<soots, turn, rotated>>

replay_vars == <<loop_counter, level_spawn, echo, queue, run0, run1>>

view_vars == <<pending, translation, animation, movement_completes, players,
              has_animation>>

vars == <<game_vars, turn_vars, replay_vars, view_vars>>

----------------------------------------------------------------------------
(* Grid *)

Cells == (0..(MAX_X - 1)) \X (0..(MAX_Y - 1))

StartCell == <<0, MAX_Y - 1>>

GoalCell == <<MAX_X - 1, 0>>

ZERO == <<0, 0>>

Cardinals == { <<1, 0>>, <<-1, 0>>, <<0, 1>>, <<0, -1>> }

Add(p, q) == <<p[1] + q[1], p[2] + q[2]>>

length_squared(v) == v[1] * v[1] + v[2] * v[2]

----------------------------------------------------------------------------
(* Input *)

\* The sets of directions that can be just pressed in one frame.
KeyCombos ==
    { {}, {"Right"}, {"Left"}, {"Down"}, {"Up"},
      {"Right", "Up"}, {"Left", "Up"}, {"Left", "Right"} }

InputOffset(keys) ==
    << (IF "Right" \in keys THEN 1 ELSE 0) - (IF "Left" \in keys THEN 1 ELSE 0),
       (IF "Up" \in keys THEN 1 ELSE 0) - (IF "Down" \in keys THEN 1 ELSE 0) >>

StoresInput(offset) == length_squared(offset) > 0

----------------------------------------------------------------------------
(* Move validation *)

FuelCost_DownCosts(offset) ==
    (IF offset[1] < 0 THEN 1 ELSE 0) + (IF offset[2] < 0 THEN 1 ELSE 0)

FuelCost_RightCosts(offset) ==
    (IF offset[1] > 0 THEN 1 ELSE 0) + (IF offset[2] > 0 THEN 1 ELSE 0)

FuelCost(offset) ==
    (IF offset[1] < 0 THEN 1 ELSE 0) + (IF offset[2] > 0 THEN 1 ELSE 0)

OutOfBounds_Inclusive(next_pos) ==
    next_pos[1] < 0 \/ next_pos[1] > MAX_X \/ next_pos[2] < 0 \/ next_pos[2] > MAX_Y

OutOfBounds_NoLowerBound(next_pos) == next_pos[1] >= MAX_X \/ next_pos[2] >= MAX_Y

OutOfBounds(next_pos) ==
    next_pos[1] < 0 \/ next_pos[1] >= MAX_X \/ next_pos[2] < 0 \/ next_pos[2] >= MAX_Y

LacksFuel_OffByOne(fuel_cost, fuel) == fuel_cost > fuel + 1

LacksFuel(fuel_cost, fuel) == fuel_cost > fuel

FuelAfter_AlwaysCharge(fuel, fuel_cost) == fuel - 1

FuelAfter(fuel, fuel_cost) == IF fuel_cost > 0 THEN fuel - fuel_cost ELSE fuel

MoveResult_BoundsOnly(location, fuel, offset) ==
    IF OutOfBounds(Add(location, offset)) THEN "out_of_bounds" ELSE "accepted"

\* The outcome of one MoveAttempt for an agent at location with fuel.
MoveResult(location, fuel, offset) ==
    IF LacksFuel(FuelCost(offset), fuel) THEN "no_fuel"
    ELSE IF OutOfBounds(Add(location, offset)) THEN "out_of_bounds"
    ELSE "accepted"

----------------------------------------------------------------------------
(* Timer *)

finished(t) == t >= AnimDuration

Tick_Stalls(t, delta) == t

Tick(t, delta) == IF t + delta >= AnimDuration THEN AnimDuration ELSE t + delta

Deltas == 0..AnimDuration

----------------------------------------------------------------------------
(* Visual position.  A position is the point reached on the way from one   *)
(* point to another after percent quanta; a point at rest has from = to.   *)

center_of(location) == <<location[1] * GRID_SPACING, location[2] * GRID_SPACING>>

At(point) == [from |-> point, to |-> point, percent |-> 0]

\* start.lerp(end, ease(timer.percent())): the ease curve maps 0 to 0 and 1 to 1
Lerp(start, end, t) ==
    IF finished(t) \/ start = end THEN At(end)
    ELSE IF t = 0 THEN At(start)
    ELSE [from |-> start, to |-> end, percent |-> t]

\* Events<T>::update: the events of a frame are gone before the systems of
\* the next frame read them
EventsUpdate_Keep(events) == events

EventsUpdate(events) == <<>>

----------------------------------------------------------------------------
(* Level population *)

\* The cells drawn for the NUM_FUEL fuel items; the source draws every cell
\* of the grid with rng.gen_range, the model draws from these placements.
FuelPlacements == { <<StartCell, GoalCell>>, << <<1, MAX_Y - 1>>, <<1, MAX_Y - 1>> >> }

CandyCell(i) == << i % MAX_X, (i \div MAX_X) % MAX_Y >>

Candies == { [id |-> i, item |-> "Candy", loc |-> CandyCell(i)] : i \in 1..NUM_CANDIES }

Fuels(cells) == { [id |-> NUM_CANDIES + i, item |-> "Fuel", loc |-> cells[i]] : i \in 1..NUM_FUEL }

Levels == { Candies \cup Fuels(cells) : cells \in FuelPlacements }

\* The Level resource is the set spawn of boxed bundles; an id tells two
\* bundles of the same kind on the same cell apart.  lc is the LoopCounter.
reset_level_Always(spawn, lc) == {}

reset_level(spawn, lc) == IF lc # 0 THEN spawn ELSE {}

\* level.spawn.push of one bundle per item of pushed
Push(spawn, pushed) ==
    spawn \cup { [i EXCEPT !.id = Cardinality(spawn) + i.id] : i \in pushed }

add_candies_to_level(spawn, lc) == IF lc # 0 THEN spawn ELSE Push(spawn, Candies)

add_fuel_to_level(spawn, lc, cells) ==
    IF lc # 0 THEN spawn
    ELSE Push(spawn, { [i EXCEPT !.id = @ - NUM_CANDIES] : i \in Fuels(cells) })

\* the level as the chain reset_level, add_candies_to_level,
\* add_fuel_to_level of OnEnter(AppState::Playing) leaves it
EnterLevel(spawn, lc, cells) ==
    add_fuel_to_level(add_candies_to_level(reset_level(spawn, lc), lc), lc, cells)

\* spawn_level: every bundle of the level is cloned into the world
spawn_level(spawn) == spawn

NoMove == [result |-> "none", offset |-> ZERO, cost |-> 0, from |-> ZERO, inv |-> [candies |-> 0, fuel |-> 0]]

\* despawn_after_game_over: the Players left of n, which all carry
\* DespawnOnExitGameOver

despawn_after_game_over(n) == 0

\* OnExit(AppState::GameOver), then OnEnter(AppState::Playing)
SpawnLevel(level) ==
    /\ players' = despawn_after_game_over(players) + 1
    /\ has_animation' = TRUE
    /\ grid_location' = StartCell
    /\ changed' = TRUE
    /\ inventory' = [candies |-> 0, fuel |-> 0]
    /\ timer' = Tick(0, AnimDuration)
    /\ items' = level
    /\ translation' = At(center_of(StartCell))
    /\ animation' = [start |-> center_of(StartCell), end |-> center_of(StartCell)]

\* the variables of the time loop, which the single-agent game leaves alone
NoTurn ==
    /\ soots = <<>>
    /\ turn = 0
    /\ rotated = FALSE

NoReplay ==
    /\ loop_counter = 0
    /\ level_spawn = {}
    /\ echo = [loc |-> StartCell, inv |-> [candies |-> 0, fuel |-> 0]]
    /\ queue = <<>>
    /\ run0 = <<>>
    /\ run1 = <<>>

\* the Player as spawn_player leaves it on the screen, no input pending
NoView ==
    /\ pending = FALSE
    /\ translation = At(center_of(StartCell))
    /\ animation = [start |-> center_of(StartCell), end |-> center_of(StartCell)]
    /\ movement_completes = <<>>
    /\ players = 1
    /\ has_animation = TRUE

Init ==
    /\ NoTurn
    /\ NoReplay
    /\ NoView
    /\ state = "Playing"
    /\ next_state = "None"
    /\ pc = "process_movement_input"
    /\ grid_location = StartCell
    /\ changed = TRUE
    /\ inventory = [candies |-> 0, fuel |-> 0]
    /\ timer = Tick(0, AnimDuration)
    /\ items \in Levels
    /\ move_buffer = ZERO
    /\ move_attempts = <<>>
    /\ item_gets = <<>>
    /\ recording = <<>>
    /\ last_move = NoMove
    /\ accepted = <<>>

----------------------------------------------------------------------------
(* Update schedule, AppState::Playing *)

\* the chain of the Update systems that the model follows
Schedule_DetectBeforePickup ==
    << "process_movement_input", "debuffer_move_inputs", "move_player_on_grid",
       "record_move_attempts", "snap_to_grid", "animate_translation",
       "detect_game_over", "pick_up_item", "add_item_to_inventory" >>

Schedule ==
    << "process_movement_input", "debuffer_move_inputs", "move_player_on_grid",
       "record_move_attempts", "snap_to_grid", "animate_translation",
       "pick_up_item", "add_item_to_inventory", "detect_game_over" >>

\* the system that runs after system; the state transition follows the last
SystemAfter(system) ==
    LET i == CHOOSE k \in 1..Len(Schedule) : Schedule[k] = system
    IN  IF i = Len(Schedule) THEN "apply_state_transition" ELSE Schedule[i + 1]

\* run_if(in_state(AppState::Playing)): the first system of a frame in st
FirstSystem_NotGated(st) == Schedule[1]

FirstSystem(st) == IF st = "Playing" THEN Schedule[1] ELSE "update_game_over_screen"

process_movement_input ==
    /\ pc = "process_movement_input"
    /\ \E keys \in KeyCombos :
        /\ keys # {} => Len(recording) < MaxRecording
        /\ LET offset == InputOffset(keys) IN
            /\ move_buffer' = IF StoresInput(offset) THEN offset ELSE move_buffer
            /\ pending' = (length_squared(move_buffer) # 0 /\ ~StoresInput(offset))
    /\ pc' = SystemAfter("process_movement_input")
    /\ UNCHANGED <<state, next_state, grid_location, changed, inventory, timer,
                   items, move_attempts, item_gets, recording, last_move, accepted>>
    /\ UNCHANGED <<turn_vars, replay_vars, translation, animation, movement_completes,
                   players, has_animation>>

\* what debuffer_move_inputs leaves in the MoveBuffer and the MoveAttempt
\* events it sends, for an animation timer t
Debuffer_WhileAnimating(t, next_move) ==
    IF length_squared(next_move) = 0 THEN [next_move |-> next_move, send |-> <<>>]
    ELSE [next_move |-> ZERO, send |-> << [offset |-> next_move] >>]

Debuffer_Drop(t, next_move) ==
    IF ~finished(t) THEN [next_move |-> ZERO, send |-> <<>>]
    ELSE IF length_squared(next_move) = 0 THEN [next_move |-> next_move, send |-> <<>>]
    ELSE [next_move |-> ZERO, send |-> << [offset |-> next_move] >>]

Debuffer(t, next_move) ==
    IF ~finished(t) THEN [next_move |-> next_move, send |-> <<>>]
    ELSE IF length_squared(next_move) = 0 THEN [next_move |-> next_move, send |-> <<>>]
    ELSE [next_move |-> ZERO, send |-> << [offset |-> next_move] >>]

\* player.single() fails unless there is exactly one Player
debuffer_move_inputs ==
    /\ pc = "debuffer_move_inputs"
    /\ IF players # 1
       THEN /\ pc' = "panic"
            /\ UNCHANGED <<move_buffer, move_attempts>>
       ELSE /\ move_buffer' = Debuffer(timer, move_buffer).next_move
            /\ move_attempts' = move_attempts \o Debuffer(timer, move_buffer).send
            /\ pc' = SystemAfter("debuffer_move_inputs")
    /\ UNCHANGED <<state, next_state, grid_location, changed, inventory, timer,
                   items, item_gets, recording, last_move, accepted>>
    /\ UNCHANGED <<turn_vars, replay_vars, view_vars>>

move_player_on_grid ==
    /\ pc = "move_player_on_grid"
    /\ IF move_attempts = <<>>
       THEN /\ pc' = SystemAfter("move_player_on_grid")
            /\ UNCHANGED <<grid_location, changed, inventory, last_move, accepted>>
       ELSE IF Len(move_attempts) > 1
       THEN /\ pc' = "panic"
            /\ UNCHANGED <<grid_location, changed, inventory, last_move, accepted>>
       ELSE LET offset == Head(move_attempts).offset
                fuel_cost == FuelCost(offset)
                result == MoveResult(grid_location, inventory.fuel, offset)
            IN  /\ pc' = SystemAfter("move_player_on_grid")
                /\ last_move' = [result |-> result, offset |-> offset, cost |-> fuel_cost,
                                 from |-> grid_location, inv |-> inventory]
                /\ IF result = "accepted"
                   THEN /\ grid_location' = Add(grid_location, offset)
                        /\ changed' = TRUE
                        /\ inventory' = [inventory EXCEPT !.fuel = FuelAfter(@, fuel_cost)]
                        /\ accepted' = Append(accepted, offset)
                   ELSE UNCHANGED <<grid_location, changed, inventory, accepted>>
    /\ pending' = FALSE
    /\ UNCHANGED <<state, next_state, timer, items, move_buffer, move_attempts,
                   item_gets, recording>>
    /\ UNCHANGED <<turn_vars, replay_vars, translation, animation, movement_completes,
                   players, has_animation>>

RECURSIVE Offsets(_)
Offsets(events) ==
    IF events = <<>> THEN <<>> ELSE <<Head(events).offset>> \o Offsets(Tail(events))

RecordMoves_Prepend(moves, events) == Offsets(events) \o moves

RecordMoves(moves, events) == moves \o Offsets(events)

record_move_attempts ==
    /\ pc = "record_move_attempts"
    /\ recording' = RecordMoves(recording, move_attempts)
    /\ pc' = SystemAfter("record_move_attempts")
    /\ UNCHANGED <<state, next_state, grid_location, changed, inventory, timer,
                   items, move_buffer, move_attempts, item_gets, last_move, accepted>>
    /\ UNCHANGED <<turn_vars, replay_vars, view_vars>>

snap_to_grid ==
    /\ pc = "snap_to_grid"
    /\ timer' = IF changed THEN 0 ELSE timer
    /\ animation' = IF changed
                    THEN [start |-> translation.to, end |-> center_of(grid_location)]
                    ELSE animation
    /\ changed' = FALSE
    /\ pc' = SystemAfter("snap_to_grid")
    /\ UNCHANGED <<state, next_state, grid_location, inventory, items, move_buffer,
                   move_attempts, item_gets, recording, last_move, accepted>>
    /\ has_animation' = IF changed THEN TRUE ELSE has_animation
    /\ UNCHANGED <<turn_vars, replay_vars, pending, translation, movement_completes, players>>

animate_translation ==
    /\ pc = "animate_translation"
    /\ \E delta \in Deltas : timer' = Tick(timer, delta)
    /\ translation' = IF finished(timer) THEN translation
                      ELSE IF finished(timer') THEN At(animation.end)
                      ELSE Lerp(animation.start, animation.end, timer')
    /\ pc' = SystemAfter("animate_translation")
    /\ UNCHANGED <<state, next_state, grid_location, changed, inventory, items,
                   move_buffer, move_attempts, item_gets, recording, last_move, accepted>>
    /\ has_animation' = IF ~finished(timer) /\ finished(timer') THEN FALSE ELSE has_animation
    /\ UNCHANGED <<turn_vars, replay_vars, pending, animation, movement_completes, players>>

ItemsAt(location) == { i \in items : i.loc = location }

\* ItemGet events in entity (spawn) order
RECURSIVE ItemGets(_, _)
ItemGets(found, id) ==
    IF id > NUM_CANDIES + NUM_FUEL THEN <<>>
    ELSE (IF \E i \in found : i.id = id
          THEN << (CHOOSE i \in found : i.id = id).item >>
          ELSE <<>>) \o ItemGets(found, id + 1)

\* the items an agent at location with animation timer t picks up
PicksUp_WhileAnimating(location, t) == ItemsAt(location)

PicksUp(location, t) == IF finished(t) THEN ItemsAt(location) ELSE {}

pick_up_item ==
    /\ pc = "pick_up_item"
    /\ items' = items \ PicksUp(grid_location, timer)
    /\ item_gets' = item_gets \o ItemGets(PicksUp(grid_location, timer), 1)
    /\ pc' = SystemAfter("pick_up_item")
    /\ UNCHANGED <<state, next_state, grid_location, changed, inventory, timer,
                   move_buffer, move_attempts, recording, last_move, accepted>>
    /\ UNCHANGED <<turn_vars, replay_vars, view_vars>>

InventoryAdd(inv, item) ==
    IF item = "Candy" THEN [inv EXCEPT !.candies = @ + 1]
    ELSE [inv EXCEPT !.fuel = @ + 1]

RECURSIVE AddAll(_, _)
AddAll(inv, events) ==
    IF events = <<>> THEN inv ELSE AddAll(InventoryAdd(inv, Head(events)), Tail(events))

add_item_to_inventory ==
    /\ pc = "add_item_to_inventory"
    /\ inventory' = AddAll(inventory, item_gets)
    /\ item_gets' = <<>>
    /\ pc' = SystemAfter("add_item_to_inventory")
    /\ UNCHANGED <<state, next_state, grid_location, changed, timer, items,
                   move_buffer, move_attempts, recording, last_move, accepted>>
    /\ UNCHANGED <<turn_vars, replay_vars, view_vars>>

GameOverCondition_NoTimer(location, t) == location = GoalCell

GameOverCondition(location, t) == finished(t) /\ location = GoalCell

detect_game_over ==
    /\ pc = "detect_game_over"
    /\ next_state' = IF GameOverCondition(grid_location, timer) THEN "GameOver" ELSE next_state
    /\ pc' = SystemAfter("detect_game_over")
    /\ UNCHANGED <<state, grid_location, changed, inventory, timer, items,
                   move_buffer, move_attempts, item_gets, recording, last_move, accepted>>
    /\ UNCHANGED <<turn_vars, replay_vars, view_vars>>

----------------------------------------------------------------------------
(* Between frames: event buffers are rotated and a queued state is entered *)

reset_recording(moves) == <<>>

apply_state_transition ==
    /\ pc = "apply_state_transition"
    /\ move_attempts' = EventsUpdate(move_attempts)
    /\ movement_completes' = EventsUpdate(movement_completes)
    /\ last_move' = NoMove
    /\ next_state' = "None"
    /\ IF next_state = "None" \/ next_state = state
       THEN UNCHANGED <<state, grid_location, changed, inventory, timer, items,
                        recording, accepted, translation, animation, players,
                        has_animation>>
       ELSE IF next_state = "GameOver"
       THEN /\ state' = "GameOver"
            /\ UNCHANGED <<grid_location, changed, inventory, timer, items,
                           recording, accepted, translation, animation, players,
                        has_animation>>
       ELSE /\ state' = "Playing"
            /\ recording' = reset_recording(recording)
            /\ accepted' = <<>>
            /\ \E level \in Levels : SpawnLevel(level)
    /\ pc' = FirstSystem(state')
    /\ UNCHANGED <<move_buffer, item_gets, pending>>
    /\ UNCHANGED <<turn_vars, replay_vars>>

Interactions == {"None", "Hovered", "Pressed"}

update_game_over_screen ==
    /\ pc = "update_game_over_screen"
    /\ \E interaction \in Interactions :
        next_state' = IF interaction = "Pressed" THEN "Playing" ELSE next_state
    /\ pc' = "apply_state_transition"
    /\ UNCHANGED <<state, grid_location, changed, inventory, timer, items,
                   move_buffer, move_attempts, item_gets, recording, last_move, accepted>>
    /\ UNCHANGED <<turn_vars, replay_vars, view_vars>>

Next ==
    \/ process_movement_input
    \/ debuffer_move_inputs
    \/ move_player_on_grid
    \/ record_move_attempts
    \/ snap_to_grid
    \/ animate_translation
    \/ pick_up_item
    \/ add_item_to_inventory
    \/ detect_game_over
    \/ apply_state_transition
    \/ update_game_over_screen

Spec == Init /\ [][Next]_vars

\* animate_translation in a frame with positive elapsed time
animate_translation_positive ==
    /\ animate_translation
    /\ finished(timer) \/ timer' > timer

NextLive ==
    \/ process_movement_input
    \/ debuffer_move_inputs
    \/ move_player_on_grid
    \/ record_move_attempts
    \/ snap_to_grid
    \/ animate_translation_positive
    \/ pick_up_item
    \/ add_item_to_inventory
    \/ detect_game_over
    \/ apply_state_transition
    \/ update_game_over_screen

\* frames keep occurring, each with positive elapsed time
SpecLive == Init /\ [][NextLive]_vars /\ WF_vars(NextLive)

----------------------------------------------------------------------------
(* Properties of the move pipeline (Spec) *)

\* the step of move_player_on_grid that handled a MoveAttempt
Attempted == pc = "move_player_on_grid" /\ last_move'.result # "none"

\* C1: in every reachable state, after any sequence of move attempts and
\* item pickups, the agent's inventory.fuel is >= 0.
C1_FuelNeverNegative == inventory.fuel >= 0

\* a move that costs fuel was applied and used up the last fuel
C1_Witness ==
    /\ last_move.result = "accepted"
    /\ last_move.cost >= 1
    /\ last_move.inv.fuel = last_move.cost
    /\ inventory.fuel = 0

\* C2: a move attempt whose target cell lies outside [0,MAX_X) x [0,MAX_Y)
\* is rejected and leaves the location unchanged, so the agent's location
\* is inside the grid in every reachable state.
C2_OutOfBoundsRejected ==
    /\ grid_location \in Cells
    /\ (last_move.result # "none" /\ Add(last_move.from, last_move.offset) \notin Cells)
        => (last_move.result # "accepted" /\ grid_location = last_move.from)

\* an attempt with enough fuel was rejected by the bounds check
C2_Witness ==
    /\ last_move.result = "out_of_bounds"
    /\ Add(last_move.from, last_move.offset) \notin Cells
    /\ grid_location = last_move.from

\* C3: the fuel cost of a move attempt is 1 if offset.x < 0 plus 1 if
\* offset.y > 0: at least 1 for every offset with x < 0 or y > 0, exactly 0
\* for every pure down or right offset.
C3_FuelCost ==
    last_move.result # "none" =>
        LET x == last_move.offset[1]
            y == last_move.offset[2]
        IN  /\ (x < 0 \/ y > 0) => last_move.cost >= 1
            /\ (x >= 0 /\ y <= 0) => last_move.cost = 0
            /\ last_move.cost = (IF x < 0 THEN 1 ELSE 0) + (IF y > 0 THEN 1 ELSE 0)

\* an up-left attempt was costed at 2
C3_Witness == last_move.offset = <<-1, 1>> /\ last_move.cost = 2

\* C4: a move attempt whose fuel cost exceeds the agent's fuel is a silent
\* no-op: location, fuel and candies are unchanged and no animation starts.
C4_NoFuelIsNoOp ==
    [][ ( /\ Attempted
          /\ (IF last_move'.offset[1] < 0 THEN 1 ELSE 0)
               + (IF last_move'.offset[2] > 0 THEN 1 ELSE 0) > inventory.fuel )
        => UNCHANGED <<grid_location, inventory, changed, timer>> ]_vars

\* an attempt to move left inside the grid was rejected for lack of fuel
C4_Witness ==
    /\ pc = "record_move_attempts"
    /\ last_move.result = "no_fuel"
    /\ Add(last_move.from, last_move.offset) \in Cells
    /\ grid_location = last_move.from
    /\ inventory = last_move.inv

\* C5: an accepted move changes exactly location := location + offset and
\* fuel := fuel - fuel_cost; candies and items are unchanged, and no other
\* step of a frame writes the location or lowers a counter of the inventory.
C5_AcceptedMoveEffect ==
    [][ /\ (Attempted /\ last_move'.result = "accepted") =>
              /\ grid_location' = Add(grid_location, last_move'.offset)
              /\ inventory'.fuel = inventory.fuel
                    - ((IF last_move'.offset[1] < 0 THEN 1 ELSE 0)
                       + (IF last_move'.offset[2] > 0 THEN 1 ELSE 0))
              /\ inventory'.candies = inventory.candies
              /\ items' = items
        /\ (pc \notin {"move_player_on_grid", "apply_state_transition"}) =>
              /\ grid_location' = grid_location
              /\ inventory'.fuel >= inventory.fuel
              /\ inventory'.candies >= inventory.candies ]_vars

\* a move to the left was applied and charged one fuel
C5_Witness ==
    /\ pc = "record_move_attempts"
    /\ last_move.result = "accepted"
    /\ last_move.offset = <<-1, 0>>
    /\ grid_location = Add(last_move.from, <<-1, 0>>)
    /\ inventory.fuel = last_move.inv.fuel - 1

\* C6: the move buffer stores an offset only when exactly one of the four
\* directions was just pressed, so it holds a unit cardinal offset or zero.
C6_BufferHoldsCardinal == move_buffer \in Cardinals \cup {ZERO}

\* C7: the recording is exactly the sequence of offsets of the accepted
\* moves, in order; a rejected attempt adds nothing to the recording.
C7_RecordingIsAcceptedMoves ==
    pc # "record_move_attempts" => recording = accepted

\* C9: the episode is declared over in a frame if and only if, at the
\* termination check, the agent is idle and on the goal cell; it is never
\* declared over while the agent is still animating.
C9_GameOverIffIdleAtGoal ==
    [][ /\ pc = "detect_game_over" =>
              ((next_state' = "GameOver") <=> (timer = AnimDuration /\ grid_location = GoalCell))
        /\ (next_state # "GameOver" /\ next_state' = "GameOver") => pc = "detect_game_over"
        /\ (state = "Playing" /\ state' = "GameOver") => next_state = "GameOver" ]_vars

\* the episode was declared over with the agent settled on the goal
C9_Witness ==
    /\ state = "GameOver"
    /\ grid_location = GoalCell
    /\ timer = AnimDuration

----------------------------------------------------------------------------
(* Turn scheduler over the N active agents (SpecTurn).  The agents carry  *)
(* SootSprite{loop_number}; agent loop_number is soots[loop_number + 1].  *)

\* active agents of one iteration
MaxSoots == 2

\* the variables of the single-agent game, which the time loop leaves alone
NoGame ==
    /\ state = "Playing"
    /\ next_state = "None"
    /\ changed = FALSE
    /\ timer = AnimDuration
    /\ move_buffer = ZERO
    /\ move_attempts = <<>>
    /\ item_gets = <<>>
    /\ last_move = NoMove
    /\ accepted = <<>>

can_move(loop_number, agents) ==
    ~(agents[loop_number + 1].loc = GoalCell /\ ~agents[loop_number + 1].animating)

NextTurn_RoundRobin(t, agents) == (t + 1) % Len(agents)

NextTurn(t, agents) ==
    LET N == Len(agents)
        candidates == { delta \in 1..N : can_move((t + delta) % N, agents) }
    IN  IF candidates = {} THEN 0
        ELSE (t + (CHOOSE d \in candidates : \A e \in candidates : d <= e)) % N

InitTurn ==
    /\ NoGame
    /\ NoReplay
    /\ NoView
    /\ pc = "turn"
    /\ grid_location = StartCell
    /\ inventory = [candies |-> 0, fuel |-> 0]
    /\ items \in Levels
    /\ recording = <<>>
    /\ \E N \in 1..MaxSoots :
        soots = [i \in 1..N |-> [loc |-> StartCell, animating |-> FALSE,
                                 inv |-> [candies |-> 0, fuel |-> 0]]]
    /\ turn = 0
    /\ rotated = FALSE

\* the agent whose loop_number is turn has a validated move applied
soot_move ==
    /\ pc = "turn"
    /\ ~soots[turn + 1].animating
    /\ \E offset \in Cardinals :
        LET soot == soots[turn + 1] IN
        /\ MoveResult(soot.loc, soot.inv.fuel, offset) = "accepted"
        /\ soots' = [soots EXCEPT ![turn + 1] =
                        [loc |-> Add(soot.loc, offset), animating |-> TRUE,
                         inv |-> [soot.inv EXCEPT !.fuel = FuelAfter(@, FuelCost(offset))]]]
    /\ rotated' = FALSE
    /\ UNCHANGED <<turn, state, next_state, pc, grid_location, changed, inventory,
                   timer, items, move_buffer, move_attempts, item_gets, recording,
                   last_move, accepted, replay_vars>>
    /\ UNCHANGED view_vars

\* pick_up_item over all SootSprites: the items that the agent with index l
\* finds on its cell once its animation has finished
FoundBy(agents, its, l) ==
    { i \in its : ~agents[l].animating /\ i.loc = agents[l].loc }

\* the despawn commands of one run of pick_up_item
Despawned(agents, its) ==
    { i \in its : \E l \in 1..Len(agents) : i \in FoundBy(agents, its, l) }

\* add_item_to_inventory: every ItemGet is added to the inventory of its agent
PickUpAll(agents, its) ==
    [l \in 1..Len(agents) |->
        [agents[l] EXCEPT !.inv = AddAll(@, ItemGets(FoundBy(agents, its, l), 1))]]

\* the pickup systems find an item on the cell of a settled agent
pick_up_item_soots ==
    /\ pc = "turn"
    /\ Despawned(soots, items) # {}
    /\ soots' = PickUpAll(soots, items)
    /\ items' = items \ Despawned(soots, items)
    /\ rotated' = FALSE
    /\ UNCHANGED <<turn, state, next_state, pc, grid_location, changed, inventory,
                   timer, move_buffer, move_attempts, item_gets, recording,
                   last_move, accepted, replay_vars>>
    /\ UNCHANGED view_vars

\* MovementComplete of the moving agent: it settles, the turn rotates and
\* the pickup systems run
movement_complete ==
    /\ pc = "turn"
    /\ soots[turn + 1].animating
    /\ LET settled == [soots EXCEPT ![turn + 1].animating = FALSE]
       IN  /\ soots' = PickUpAll(settled, items)
           /\ items' = items \ Despawned(settled, items)
    /\ turn' = NextTurn(turn, soots')
    /\ rotated' = TRUE
    /\ UNCHANGED <<state, next_state, pc, grid_location, changed, inventory,
                   timer, move_buffer, move_attempts, item_gets, recording,
                   last_move, accepted, replay_vars>>
    /\ UNCHANGED view_vars

NextT == soot_move \/ movement_complete \/ pick_up_item_soots

SpecTurn == InitTurn /\ [][NextT]_vars

\* C10: after every turn rotation the turn counter is in [0, N) and
\* designates an agent that does not rest at the goal; if every agent rests
\* at the goal the turn counter is 0.
C10_TurnDesignatesMover ==
    rotated =>
        /\ turn \in 0..(Len(soots) - 1)
        /\ IF \E i \in 1..Len(soots) : soots[i].loc # GoalCell
           THEN soots[turn + 1].loc # GoalCell
           ELSE turn = 0

\* the rotation skipped the agent that rests at the goal
C10_Witness ==
    /\ rotated
    /\ Len(soots) = 2
    /\ soots[2].loc = GoalCell
    /\ soots[1].loc # GoalCell
    /\ turn = 0

----------------------------------------------------------------------------
(* Recording and replay over the two iterations of the time loop          *)
(* (SpecReplay).  A step is one move attempt of an idle agent followed by  *)
(* the settling of its animation and the pickup on the cell it rests on.   *)

NoRun == [started |-> FALSE, fuel |-> 0, items |-> {}, trace |-> <<>>, used |-> 0]

\* spawn_player: the SootSprite{loop_number: 0} of every episode
spawn_player ==
    [loop_number |-> 0, loc |-> <<0, MAX_Y - 1>>, animating |-> FALSE,
     inv |-> [candies |-> 0, fuel |-> 0]]

\* spawn_past_self: the SootSprite{loop_number: 1}, for a LoopCounter lc
spawn_past_self_Always(lc) ==
    << [loop_number |-> 1, loc |-> <<0, MAX_Y - 1>>, animating |-> FALSE,
        inv |-> [candies |-> 0, fuel |-> 0]] >>

spawn_past_self(lc) ==
    IF lc # 1 THEN <<>>
    ELSE << [loop_number |-> 1, loc |-> <<0, MAX_Y - 1>>, animating |-> FALSE,
             inv |-> [candies |-> 0, fuel |-> 0]] >>

\* the agents that OnEnter(AppState::Playing) spawns
SpawnSoots(lc) == <<spawn_player>> \o spawn_past_self(lc)

\* the echo as spawn_past_self leaves it
PastSelf_AtOrigin == [loc |-> ZERO, inv |-> [candies |-> 0, fuel |-> 0]]

PastSelf == [loc |-> <<0, MAX_Y - 1>>, inv |-> [candies |-> 0, fuel |-> 0]]

\* the next offset the echo replays and the rest of its queue
Dequeue_Back(q) == [offset |-> q[Len(q)], rest |-> SubSeq(q, 1, Len(q) - 1)]

Dequeue(q) == [offset |-> Head(q), rest |-> Tail(q)]

\* an agent at loc with inventory inv attempts offset, settles and picks up
\* what lies on its cell among its
Attempt(loc, inv, its, offset) ==
    LET result == MoveResult(loc, inv.fuel, offset)
        fuel_cost == FuelCost(offset)
        new_loc == IF result = "accepted" THEN Add(loc, offset) ELSE loc
        moved == IF result = "accepted"
                 THEN [inv EXCEPT !.fuel = FuelAfter(@, fuel_cost)] ELSE inv
        found == { i \in its : i.loc = new_loc }
    IN  [loc |-> new_loc,
         inv |-> AddAll(moved, ItemGets(found, 1)),
         items |-> its \ found,
         used |-> IF result = "accepted" THEN fuel_cost ELSE 0]

\* the run of an agent, extended by one attempt
Extend(run, inv, its, after) ==
    [started |-> TRUE,
     fuel |-> IF run.started THEN run.fuel ELSE inv.fuel,
     items |-> IF run.started THEN run.items ELSE its,
     trace |-> Append(run.trace, after.loc),
     used |-> run.used + after.used]

\* soots holds the agents as they were spawned at the start of the episode
InitReplay ==
    /\ NoGame
    /\ NoView
    /\ soots = SpawnSoots(0)
    /\ turn = 0
    /\ rotated = FALSE
    /\ pc = "iteration0"
    /\ loop_counter = 0
    /\ \E cells \in FuelPlacements : level_spawn = EnterLevel({}, 0, cells)
    /\ items = spawn_level(level_spawn)
    /\ grid_location = StartCell
    /\ inventory = [candies |-> 0, fuel |-> 0]
    /\ recording = <<>>
    /\ echo = PastSelf
    /\ queue = <<>>
    /\ run0 = NoRun
    /\ run1 = NoRun

\* the loop-0 agent waits at the start cell until its first animation has
\* settled, and picks up what lies there
loop0_settle ==
    /\ pc = "iteration0"
    /\ ~run0.started
    /\ ItemsAt(grid_location) # {}
    /\ inventory' = AddAll(inventory, ItemGets(ItemsAt(grid_location), 1))
    /\ items' = items \ ItemsAt(grid_location)
    /\ UNCHANGED <<state, next_state, pc, grid_location, changed, timer, move_buffer,
                   move_attempts, item_gets, recording, last_move, accepted,
                   turn_vars, replay_vars>>
    /\ UNCHANGED view_vars

loop0_attempt ==
    /\ pc = "iteration0"
    /\ grid_location # GoalCell
    /\ Len(recording) < MaxRecording
    /\ \E keys \in KeyCombos :
        LET offset == InputOffset(keys)
            after == Attempt(grid_location, inventory, items, offset)
        IN  /\ StoresInput(offset)
            /\ recording' = RecordMoves(recording, << [offset |-> offset] >>)
            /\ grid_location' = after.loc
            /\ inventory' = after.inv
            /\ items' = after.items
            /\ run0' = Extend(run0, inventory, items, after)
    /\ UNCHANGED <<state, next_state, pc, changed, timer, move_buffer, move_attempts,
                   item_gets, last_move, accepted, turn_vars,
                   loop_counter, level_spawn, echo, queue, run1>>
    /\ UNCHANGED view_vars

\* the episode of iteration 0 is over and iteration 1 is entered: the
\* systems of OnExit(GameOver) and OnEnter(Playing) run, the stored level is
\* spawned again with the Player and its past self, and the echo is fed the
\* offsets recorded in iteration 0
restart ==
    /\ pc = "iteration0"
    /\ GameOverCondition(grid_location, AnimDuration)
    /\ pc' = "iteration1"
    /\ loop_counter' = (loop_counter + 1) % 2
    /\ \E cells \in FuelPlacements :
        level_spawn' = EnterLevel(level_spawn, loop_counter', cells)
    /\ items' = spawn_level(level_spawn')
    /\ grid_location' = StartCell
    /\ inventory' = [candies |-> 0, fuel |-> 0]
    /\ soots' = SpawnSoots(loop_counter')
    /\ echo' = PastSelf
    /\ queue' = recording
    /\ recording' = reset_recording(recording)
    /\ UNCHANGED <<state, next_state, changed, timer, move_buffer, move_attempts,
                   item_gets, last_move, accepted, turn, rotated, run0, run1>>
    /\ UNCHANGED view_vars

echo_settle ==
    /\ pc = "iteration1"
    /\ ~run1.started
    /\ ItemsAt(echo.loc) # {}
    /\ echo' = [echo EXCEPT !.inv = AddAll(@, ItemGets(ItemsAt(echo.loc), 1))]
    /\ items' = items \ ItemsAt(echo.loc)
    /\ UNCHANGED <<state, next_state, pc, grid_location, changed, inventory, timer,
                   move_buffer, move_attempts, item_gets, recording, last_move,
                   accepted, turn_vars, loop_counter, level_spawn, queue, run0, run1>>
    /\ UNCHANGED view_vars

echo_replay ==
    /\ pc = "iteration1"
    /\ queue # <<>>
    /\ LET next == Dequeue(queue)
           after == Attempt(echo.loc, echo.inv, items, next.offset)
       IN  /\ queue' = next.rest
           /\ echo' = [loc |-> after.loc, inv |-> after.inv]
           /\ items' = after.items
           /\ run1' = Extend(run1, echo.inv, items, after)
    /\ UNCHANGED <<state, next_state, pc, grid_location, changed, inventory, timer,
                   move_buffer, move_attempts, item_gets, recording, last_move,
                   accepted, turn_vars, loop_counter, level_spawn, run0>>
    /\ UNCHANGED view_vars

NextR == loop0_settle \/ loop0_attempt \/ restart \/ echo_settle \/ echo_replay

SpecReplay == InitReplay /\ [][NextR]_vars

\* the echo made its first attempt with the fuel and the items the loop-0
\* agent had at its first attempt
SameStart == run1.started /\ run1.fuel = run0.fuel /\ run1.items = run0.items

----------------------------------------------------------------------------
(* Events, pickup and the move buffer of the single-agent game (Spec)      *)

\* C11: in every frame at most one MoveAttempt exists and the fatal failure
\* is never reached; a frame that holds more than one MoveAttempt fails and
\* applies none of them; GridLocation is written by at most one step of a
\* frame, the one that handles the single MoveAttempt.
C11_AtMostOneMoveAttempt ==
    [][/\ Len(move_attempts') <= 1
       /\ pc' # "panic"
       /\ (pc = "move_player_on_grid" /\ Len(move_attempts) > 1) =>
              /\ pc' = "panic"
              /\ grid_location' = grid_location
              /\ inventory' = inventory
       /\ grid_location' # grid_location =>
              \/ pc = "move_player_on_grid" /\ Len(move_attempts) = 1
              \/ pc = "apply_state_transition" /\ state = "GameOver"]_vars

\* the single MoveAttempt of a frame was applied, after a move in an
\* earlier frame
C11_Witness ==
    /\ pc = "record_move_attempts"
    /\ Len(move_attempts) = 1
    /\ last_move.result = "accepted"
    /\ Len(accepted) >= 2

\* C12: an item leaves the level, with one ItemGet, only in the pickup step
\* of a frame in which the Player's animation has finished and only if it
\* lies on the Player's cell; an animating Player picks up nothing, not even
\* on its destination cell.
C12_PickUpOnlyWhenSettled ==
    [][pc # "apply_state_transition" =>
          /\ (items' # items \/ Len(item_gets') > Len(item_gets)) =>
                /\ pc = "pick_up_item"
                /\ finished(timer)
                /\ items' \subseteq items
                /\ \A i \in items \ items' : i.loc = grid_location
                /\ Len(item_gets') = Len(item_gets) + Cardinality(items \ items')
          /\ (pc = "pick_up_item" /\ ~finished(timer)) =>
                (items' = items /\ item_gets' = item_gets)]_vars

\* the pickup step ran while the Player was animating towards a cell that
\* holds an item, and the item is still there
C12_Witness ==
    /\ pc = "add_item_to_inventory"
    /\ ~finished(timer)
    /\ ItemsAt(grid_location) # {}
    /\ item_gets = <<>>

\* C15: at every entry into AppState::Playing the move buffer is empty.
C15_BufferEmptyAtEpisodeStart ==
    [][(state = "GameOver" /\ state' = "Playing") => move_buffer' = ZERO]_vars

C17_NoItemOnStartOrGoal ==
    \A i \in items : i.loc # StartCell /\ i.loc # GoalCell

\* C19: a MoveAttempt is sent only by the debuffer step of a frame in which
\* the animation has finished, it carries the buffered offset and the buffer
\* is cleared in the same step, so that one buffered input yields one
\* MoveAttempt; GridLocation never changes while the animation runs.
C19_AttemptOnlyWhenSettled ==
    [][/\ Len(move_attempts') > Len(move_attempts) =>
              /\ pc = "debuffer_move_inputs"
              /\ finished(timer)
              /\ move_attempts' = Append(move_attempts, [offset |-> move_buffer])
              /\ move_buffer' = ZERO
       /\ (pc = "move_player_on_grid" /\ grid_location' # grid_location) =>
              finished(timer)
       /\ (~finished(timer) /\ pc # "apply_state_transition") =>
              grid_location' = grid_location]_vars

\* a buffered input was sent as the MoveAttempt of a frame with a settled
\* animation, and the buffer is empty
C19_Witness ==
    /\ pc = "move_player_on_grid"
    /\ Len(move_attempts) = 1
    /\ move_buffer = ZERO
    /\ finished(timer)
    /\ MoveResult(grid_location, inventory.fuel, Head(move_attempts).offset) = "accepted"

\* C20: in the frame in which the animation timer crosses finished the
\* visual position is set to end, the center of the current GridLocation,
\* one MovementComplete naming the agent is sent and the agent is idle; no
\* MovementComplete is sent in any other frame.
C20_CompletionSnapsAndSignals ==
    [][IF pc = "animate_translation" /\ ~finished(timer) /\ finished(timer')
       THEN /\ translation' = At(animation.end)
            /\ animation.end = center_of(grid_location)
            /\ movement_completes' = Append(movement_completes, "Player")
       ELSE Len(movement_completes') <= Len(movement_completes)]_vars

----------------------------------------------------------------------------
(* Pickup with several agents (SpecTurn)                                   *)

RECURSIVE Held(_, _)
\* the number of items of a kind in the inventories of the agents
Held(agents, kind) ==
    IF agents = <<>> THEN 0
    ELSE (IF kind = "Candy" THEN Head(agents).inv.candies ELSE Head(agents).inv.fuel)
         + Held(Tail(agents), kind)

OfKind(its, kind) == { i \in its : i.item = kind }

\* C13: every item is picked up at most once, whatever the number of settled
\* agents on its cell: a step that removes items from the level adds to the
\* inventories one item for every item removed.
C13_EachItemPickedUpOnce ==
    [][items' # items =>
          \A kind \in {"Candy", "Fuel"} :
              Held(soots', kind) - Held(soots, kind)
                  = Cardinality(OfKind(items, kind)) - Cardinality(OfKind(items', kind))]_vars

----------------------------------------------------------------------------
(* The two iterations of the time loop (SpecReplay)                        *)

\* C14: when the episode of iteration 0 ends and iteration 1 begins, the
\* recording still holds all the offsets recorded in iteration 0.
C14_RecordingKeptForIteration1 ==
    [][(pc = "iteration0" /\ pc' = "iteration1") => recording' = recording]_vars

\* C18: iteration 0 has one agent, with loop_number 0; iteration 1 has two
\* agents, with loop_number 0 and the echo with loop_number 1; every agent
\* is spawned on the start cell with no candies, no fuel and a finished
\* animation.
C18_AgentsOfIteration ==
    /\ loop_counter = 0 => (Len(soots) = 1 /\ soots[1].loop_number = 0)
    /\ loop_counter = 1 =>
          (Len(soots) = 2 /\ soots[1].loop_number = 0 /\ soots[2].loop_number = 1)
    /\ pc = "iteration1" <=> loop_counter = 1
    /\ \A l \in 1..Len(soots) :
          /\ soots[l].loc = StartCell
          /\ soots[l].inv = [candies |-> 0, fuel |-> 0]
          /\ ~soots[l].animating

\* iteration 1 was entered and the echo was spawned next to the Player
C18_Witness ==
    /\ pc = "iteration1"
    /\ loop_counter = 1
    /\ Len(soots) = 2
    /\ echo.loc = StartCell
    /\ run0.started

----------------------------------------------------------------------------
(* Moves of the single-agent game (Spec)                                   *)

\* C23: an agent at (0, 0) with fuel 1 that attempts the left offset
\* (-1, 0) is rejected by the bounds check: its location stays (0, 0) and
\* its fuel stays 1.
C23_LeftAtOriginRejected ==
    [][(/\ pc = "move_player_on_grid"
        /\ grid_location = <<0, 0>>
        /\ inventory.fuel = 1
        /\ move_attempts = << [offset |-> <<-1, 0>>] >>) =>
           /\ last_move'.result = "out_of_bounds"
           /\ grid_location' = <<0, 0>>
           /\ inventory'.fuel = 1
           /\ inventory' = inventory
           /\ changed' = changed]_vars

\* the left attempt of an agent at (0, 0) with fuel 1 was handled
C23_Witness ==
    /\ pc = "record_move_attempts"
    /\ last_move.from = <<0, 0>>
    /\ last_move.inv.fuel = 1
    /\ last_move.offset = <<-1, 0>>
    /\ grid_location = <<0, 0>>
    /\ inventory.fuel = 1

RECURSIVE FreeRoute(_, _)
\* the free moves, right first and then down, are all accepted from
\* location with fuel, leave the fuel alone and end on the goal cell
FreeRoute(location, fuel) ==
    IF location = GoalCell THEN TRUE
    ELSE LET offset == IF location[1] < MAX_X - 1 THEN <<1, 0>> ELSE <<0, -1>>
         IN  /\ MoveResult(location, fuel, offset) = "accepted"
             /\ FuelAfter(fuel, FuelCost(offset)) = fuel
             /\ FreeRoute(Add(location, offset), fuel)

\* C26: from every Playing state, whatever the fuel, a sequence of free
\* moves (right, down) that are all accepted leads to the goal cell, where
\* the episode is declared over once the animation has settled.
C26_NeverStuck ==
    state = "Playing" =>
        /\ grid_location \in Cells
        /\ FreeRoute(grid_location, inventory.fuel)
        /\ GameOverCondition(GoalCell, AnimDuration)

\* the agent spent its fuel to come back to the start cell and has none left
C26_Witness ==
    /\ state = "Playing"
    /\ pc = "process_movement_input"
    /\ grid_location = StartCell
    /\ inventory.fuel = 0
    /\ Len(accepted) >= 2
    /\ finished(timer)

----------------------------------------------------------------------------
(* Order of the systems and the two application states (Spec)              *)

\* C21: pickup runs before the termination check of the same frame: in the
\* step that declares the episode over the Player rests on the goal cell, no
\* item lies on that cell, no ItemGet waits to be added, and the inventory
\* holds every candy that left the level.
C21_PickupBeforeGameOver ==
    [][(pc = "detect_game_over" /\ next_state' = "GameOver") =>
          /\ grid_location = GoalCell
          /\ ItemsAt(GoalCell) = {}
          /\ item_gets = <<>>
          /\ inventory.candies
                = NUM_CANDIES - Cardinality({ i \in items : i.item = "Candy" })]_vars

\* the episode was declared over in the frame in which the Player settled
\* on the goal cell, and the candy and the fuel that lay there are in its
\* inventory
C21_Witness ==
    /\ pc = "apply_state_transition"
    /\ state = "Playing"
    /\ next_state = "GameOver"
    /\ last_move.result = "none"
    /\ ItemsAt(GoalCell) = {}
    /\ inventory.candies >= 1
    /\ inventory.fuel >= 1
    /\ Len(accepted) = MAX_X + MAX_Y - 2

\* C24: Playing is left only when the goal detector has declared the
\* episode over, GameOver only when Restart has been pressed; while in
\* GameOver no location, inventory, buffer or recording changes, and the
\* Player and the items of the finished episode stay until GameOver is left.
C24_PlayingGameOverAlternate ==
    [][/\ state \in {"Playing", "GameOver"}
       /\ (next_state' = "GameOver" /\ next_state # "GameOver") =>
             (pc = "detect_game_over" /\ state = "Playing")
       /\ (next_state' = "Playing" /\ next_state # "Playing") =>
             (pc = "update_game_over_screen" /\ state = "GameOver")
       /\ (state = "Playing" /\ state' # "Playing") =>
             (state' = "GameOver" /\ next_state = "GameOver")
       /\ (state = "GameOver" /\ state' # "GameOver") =>
             (state' = "Playing" /\ next_state = "Playing")
       /\ (state = "GameOver" /\ state' = "GameOver") =>
             /\ pc \in {"update_game_over_screen", "apply_state_transition"}
             /\ UNCHANGED <<grid_location, inventory, move_buffer, recording,
                            items, players, timer>>]_vars

\* Restart was pressed on the game over screen of an episode that the
\* Player finished on the goal cell
C24_Witness ==
    /\ state = "GameOver"
    /\ pc = "apply_state_transition"
    /\ next_state = "Playing"
    /\ grid_location = GoalCell
    /\ players = 1
    /\ recording # <<>>

\* C27: in every frame of Playing, over any number of restarts, there is
\* exactly one Player and it carries its animation state, which is what the
\* singleton lookups of the movement and pickup systems match on.
C27_OnePlayerWithAnimationState ==
    /\ state = "Playing" => players = 1 /\ has_animation
    /\ pc # "panic"

----------------------------------------------------------------------------

\* the multiset of (kind, cell) pairs of a set of items
Placements(its) ==
    [p \in {"Candy", "Fuel"} \X Cells |->
        Cardinality({ i \in its : <<i.item, i.loc>> = p })]

\* C22: the level is generated when the loop counter is 0 and spawned whole
\* at the start of iteration 0; it is never cleared or generated again
\* afterwards, and on entering iteration 1 the items spawned are, as a
\* multiset of (kind, cell) pairs, the whole stored level again, with the
\* items collected in iteration 0.
C22_SameLevelInIteration1 ==
    /\ [](pc = "iteration0" /\ ~run0.started /\ inventory = [candies |-> 0, fuel |-> 0]
            => Placements(items) = Placements(level_spawn)
               /\ Cardinality(level_spawn) = NUM_CANDIES + NUM_FUEL)
    /\ [][/\ level_spawn' = level_spawn
          /\ pc = "iteration0" /\ pc' = "iteration1"
                => /\ loop_counter' = 1
                   /\ Placements(items') = Placements(level_spawn)]_vars

\* iteration 1 has just been entered; the Player of iteration 0 walked to
\* the goal and collected what lay there, and it lies there again
C22_Witness ==
    /\ pc = "iteration1"
    /\ ~run1.started
    /\ loop_counter = 1
    /\ Len(run0.trace) >= 2
    /\ items = level_spawn
    /\ run0.trace[Len(run0.trace)] = GoalCell
    /\ \E i \in items : i.loc = GoalCell

----------------------------------------------------------------------------

====
